---- MODULE Spec2Model ----
(***************************************************************************)
(* A state-machine model of onepdfshrink.py: main -> compress_pdf ->       *)
(* extract_and_compress_images -> split_pdf_by_size.                       *)
(*                                                                         *)
(* The PDF container (PyPDF2), zlib and the image codec (Pillow) are       *)
(* external: what they return is an input of the step that calls them,     *)
(* drawn from a small set (a result, or an exception).  Pages and image    *)
(* objects are resolved when the code first reads them, as PyPDF2 does.    *)
(***************************************************************************)
EXTENDS Integers, Sequences, FiniteSets, TLC

\* ---------------------------------------------------------------- bounds
MaxDocPages == 2      \* pages of a document run through the whole pipeline
MaxXObjects == 2      \* XObject entries of one page that the loop visits
MaxLen == 2           \* length of a byte string
MaxFilters == 2       \* length of an image's /Filter array
MaxSizeMB == 1        \* the -s argument, in MB
MaxPages == 10        \* pages of a file given to split_pdf_by_size (additive sizes)
MaxMeasuredPages == 3 \* the same, when every serialization size is arbitrary

\* ------------------------------------------------------- program constants
KB == 1024
MB == KB * KB

\* The sizes of one page in the additive size model.
PageSizes == {MB \div 4, MB \div 2, MB}

\* Python's None, and the exceptions of the external libraries, as values.
None == [none |-> TRUE]
ZlibError == [error |-> "zlib.error"]
PILError == [error |-> "PIL error"]

\* An XObject slot with no image resolved, and one removed by del xobjects[name].
NoObj == [kind |-> "none"]
Deleted == [kind |-> "deleted"]

\* temp_filename before its first assignment, after "= None", and once named.
Unbound == "unbound"
NoName == "None"
TempName == "<stem>_temp_chunk.pdf"

Flate == "/FlateDecode"
DCT == "/DCTDecode"
CCITT == "/CCITTFaxDecode"
JBIG2 == "/JBIG2Decode"
JPX == "/JPXDecode"
LZW == "/LZWDecode"

\* The filters decode_pdf_image declines to decode.
UnsupportedFilters == {CCITT, JBIG2, JPX}

\* The filters decode_pdf_image tests for, and one it does not know.
Filters == {Flate, DCT, LZW} \cup UnsupportedFilters

Levels == {"low", "medium", "high"}

\* Byte strings: sequences of bits of length 0..MaxLen.
Bytes == {[bytes |-> b] : b \in UNION {[1..n -> 0..1] : n \in 0..MaxLen}}

BLen(b) == Len(b.bytes)

\* /Filter: absent or an empty array (<<>>), one name, or an array of names.
FilterChains == UNION {[1..n -> Filters] : n \in 0..MaxFilters}

AuxKeys == {"/DecodeParms", "/SMask", "/Mask"}

\* An image XObject as the reader resolves it: its payload (_data) and the
\* attributes the program reads or writes.
ImageObjects ==
  {[data |-> d, Filter |-> f, Length |-> BLen(d), ColorSpace |-> "/DeviceGray",
    aux |-> a] : d \in {b \in Bytes : BLen(b) > 0}, f \in FilterChains, a \in {{}, AuxKeys}}

\* ------------------------------------------------------------ pure helpers
\* The positions of a filter chain where zlib.decompress is called.
FlatePositions(filters) == {i \in 1..Len(filters) : filters[i] = Flate}

RECURSIVE DecodeLoop_JPXIgnored(_, _, _, _)
\* DecodeLoop without the /JPXDecode branch: the filter is passed over like
\* one the function does not know.
DecodeLoop_JPXIgnored(filters, i, data, z) ==
  IF i > Len(filters) THEN data
  ELSE IF filters[i] = Flate
         THEN IF z[i] = ZlibError THEN None
              ELSE DecodeLoop_JPXIgnored(filters, i + 1, z[i], z)
  ELSE IF filters[i] = DCT THEN data
  ELSE IF filters[i] = CCITT THEN None
  ELSE IF filters[i] = JBIG2 THEN None
  ELSE DecodeLoop_JPXIgnored(filters, i + 1, data, z)

RECURSIVE DecodeLoop(_, _, _, _)
\* The loop of decode_pdf_image from filter i on; z[i] is what zlib.decompress
\* returns (or ZlibError when it raises) at position i.
DecodeLoop(filters, i, data, z) ==
  IF i > Len(filters) THEN data
  ELSE IF filters[i] = Flate
         THEN IF z[i] = ZlibError THEN None
              ELSE DecodeLoop(filters, i + 1, z[i], z)
  ELSE IF filters[i] = DCT THEN data
  ELSE IF filters[i] = CCITT THEN None
  ELSE IF filters[i] = JBIG2 THEN None
  ELSE IF filters[i] = JPX THEN None
  ELSE DecodeLoop(filters, i + 1, data, z)

decode_pdf_image(obj, z) ==
  IF obj.Filter = <<>> THEN obj.data
  ELSE DecodeLoop(obj.Filter, 1, obj.data, z)

quality_map(level) ==
  CASE level = "low" -> 70
    [] level = "medium" -> 50
    [] level = "high" -> 20
    [] OTHER -> 50

size_map(level) ==
  CASE level = "low" -> <<1200, 900>>
    [] level = "medium" -> <<800, 600>>
    [] level = "high" -> <<400, 300>>
    [] OTHER -> <<800, 600>>

\* compress_image with "<=" for "<" at line 138.
compress_image_NotLarger(img, quality, max_width, max_height, pil_available, pil) ==
  IF ~pil_available \/ img = None THEN img
  ELSE IF pil = PILError THEN img
  ELSE IF BLen(pil) <= BLen(img) THEN pil
  ELSE img

\* What the codec calls of compress_image produce: pil is the JPEG they return,
\* or PILError when one of them raises.
compress_image(img, quality, max_width, max_height, pil_available, pil) ==
  IF ~pil_available \/ img = None THEN img
  ELSE IF pil = PILError THEN img
  ELSE IF BLen(pil) < BLen(img) THEN pil
  ELSE img

\* The object after lines 207-215 have put compressed_data into it.
ReplaceImage(o, compressed) ==
  [data |-> compressed,
   Filter |-> <<DCT>>,
   Length |-> BLen(compressed),
   ColorSpace |-> "/DeviceRGB",
   aux |-> o.aux \ {"/DecodeParms", "/SMask", "/Mask"}]

\* ------------------------------------------------------------------ state
VARIABLES
  pc,                     \* where the program is
  PIL_AVAILABLE,          \* module global, set by the import of PIL
  compression_level,      \* compress_pdf parameters (main's parsed arguments)
  remove_images,          \*   args.remove_images
  chunk_size,             \*   args.split_size; 0 stands for None
  num_pages,              \* len(pdf_reader.pages) in compress_pdf
  page_num,               \* loop variable of extract_and_compress_images
  writerPages,            \* the pages added to pdf_writer, in order
  obj_idx,                \* position of obj_name in list(xobjects.keys())
  orig,                   \* the current image as the reader resolved it
  obj,                    \* the current image object, as it is now
  image_data,             \* decode_pdf_image's result for it
  compressed_data,        \* compress_image's result for it
  outputExists,           \* output_path (the file split_pdf_by_size is given) exists
  outputPages,            \* the number of pages of that file
  success,                \* compress_pdf's return value
  printed,                \* the reports written to stdout
  exitCode,               \* the process's exit code, -1 while it runs
  size_bytes,             \* split_pdf_by_size locals
  total_pages,
  chunk_number,
  temp_filename,
  pages_in_current_chunk,
  page_number,
  test_size,
  tempExists,             \* the probe file is on disk
  tempRemoveFailed,       \* the last os.remove of the probe file raised (swallowed)
  chunkFiles,             \* the <stem>_partNN files on disk, by chunk number
  sizeOf,                 \* the serialized size of each page range written so far
  splitEnd                \* how split_pdf_by_size ended: "none" (not yet), "returned", "raised"

cfgVars == <<PIL_AVAILABLE, compression_level, remove_images, chunk_size>>
pageVars == <<num_pages, page_num, writerPages>>
imageVars == <<obj_idx, orig, obj, image_data, compressed_data>>
fileVars == <<outputExists, outputPages>>
mainVars == <<success, printed, exitCode>>
splitVars == <<size_bytes, total_pages, chunk_number, temp_filename,
               pages_in_current_chunk, page_number, test_size, tempExists,
               tempRemoveFailed, chunkFiles, sizeOf, splitEnd>>
vars == <<pc, cfgVars, pageVars, imageVars, fileVars, mainVars, splitVars>>

\* split_pdf_by_size's frame before it is entered.
SplitIdle ==
  /\ size_bytes = 0
  /\ total_pages = 0
  /\ chunk_number = 0
  /\ temp_filename = Unbound
  /\ pages_in_current_chunk = 0
  /\ page_number = 0
  /\ test_size = 0
  /\ tempExists = FALSE
  /\ tempRemoveFailed = FALSE
  /\ chunkFiles = <<>>
  /\ splitEnd = "none"

\* extract_and_compress_images' frame outside the function.
ExtractIdle ==
  /\ num_pages = 0
  /\ page_num = 0
  /\ writerPages = <<>>
  /\ obj_idx = 0
  /\ orig = NoObj
  /\ obj = NoObj
  /\ image_data = None
  /\ compressed_data = None

\* The process at the top of main(), arguments parsed.
Init ==
  /\ pc = "main"
  /\ PIL_AVAILABLE \in BOOLEAN
  /\ compression_level \in Levels
  /\ remove_images \in BOOLEAN
  /\ chunk_size \in 0..MaxSizeMB
  /\ ExtractIdle
  /\ outputExists = FALSE
  /\ outputPages = 0
  /\ success = FALSE
  /\ printed = {}
  /\ exitCode = -1
  /\ SplitIdle
  /\ sizeOf = <<>>

\* ------------------------------------------------------------------- main
\* main() up to the call of compress_pdf: the input must exist and be named
\* *.pdf, and an existing output is overwritten only with consent.
MainValidate ==
  /\ pc = "main"
  /\ \E input_exists, is_pdf, output_exists, overwrite \in BOOLEAN :
       IF ~input_exists \/ ~is_pdf
         THEN /\ pc' = "exit"
              /\ exitCode' = 1
              /\ printed' = printed \cup {"Error: input"}
              /\ UNCHANGED outputExists
       ELSE IF output_exists /\ ~overwrite
         THEN /\ pc' = "exit"
              /\ exitCode' = 0
              /\ printed' = printed \cup {"Operation cancelled."}
              /\ outputExists' = TRUE
       ELSE /\ pc' = "compress_pdf"
            /\ outputExists' = output_exists
            /\ UNCHANGED <<exitCode, printed>>
  /\ UNCHANGED <<cfgVars, pageVars, imageVars, outputPages, success, splitVars>>

\* compress_pdf's except clause: report and return False.
CompressFailed ==
  /\ pc' = "report"
  /\ success' = FALSE
  /\ printed' = printed \cup {"Error compressing PDF"}
  /\ UNCHANGED exitCode

\* Lines 246-249: open the input and parse it.
CompressOpen ==
  /\ pc = "compress_pdf"
  /\ \/ /\ CompressFailed
        /\ UNCHANGED pageVars
     \/ /\ \E n \in 0..MaxDocPages : num_pages' = n
        /\ pc' = "page"
        /\ UNCHANGED <<page_num, writerPages, mainVars>>
  /\ UNCHANGED <<cfgVars, imageVars, fileVars, splitVars>>

\* -------------------------------------------- extract_and_compress_images
\* Lines 175-182: the next page and its XObject dictionary.  Reading the page
\* or its /Resources can raise outside the try (compress_pdf catches it);
\* reading /XObject or its keys can raise inside it, and line 224 continues.
ExtractPage ==
  /\ pc = "page"
  /\ page_num < num_pages
  /\ \/ /\ CompressFailed
        /\ UNCHANGED <<pageVars, obj_idx>>
     \/ /\ pc' = "add_page"
        /\ UNCHANGED <<pageVars, obj_idx, mainVars>>
     \/ /\ pc' = "page"
        /\ page_num' = page_num + 1
        /\ UNCHANGED <<num_pages, writerPages, obj_idx, mainVars>>
     \/ /\ obj_idx' = 1
        /\ pc' = "xobj"
        /\ UNCHANGED <<pageVars, mainVars>>
  /\ UNCHANGED <<cfgVars, orig, obj, image_data, compressed_data, fileVars,
                 splitVars>>

\* Lines 182-184: the list of names is at its end, or has a next XObject.
\* Resolving that can raise (outside the per-image try: line 224 continues),
\* it may be no image, or it is an image.
ExtractXObject ==
  /\ pc = "xobj"
  /\ \/ /\ pc' = "add_page"
        /\ UNCHANGED <<pageVars, imageVars>>
     \/ /\ obj_idx <= MaxXObjects
        /\ \/ /\ pc' = "page"
              /\ page_num' = page_num + 1
              /\ UNCHANGED <<num_pages, writerPages, imageVars>>
           \/ /\ obj_idx' = obj_idx + 1
              /\ UNCHANGED <<pc, pageVars, orig, obj, image_data,
                             compressed_data>>
           \/ /\ \E o \in ImageObjects :
                   /\ orig' = o
                   /\ obj' = o
              /\ image_data' = None
              /\ compressed_data' = None
              /\ pc' = "image"
              /\ UNCHANGED <<pageVars, obj_idx>>
  /\ UNCHANGED <<cfgVars, fileVars, mainVars, splitVars>>

\* Lines 185-197: remove the image, or decode it.  An exception in the body
\* skips the image (line 221).
ExtractImage ==
  /\ pc = "image"
  /\ \/ /\ pc' = "next"
        /\ UNCHANGED <<obj, image_data>>
     \/ /\ remove_images
        /\ obj' = Deleted
        /\ pc' = "next"
        /\ UNCHANGED image_data
     \/ /\ ~remove_images
        /\ \E decoded \in {decode_pdf_image(obj, z) :
                              z \in [FlatePositions(obj.Filter) ->
                                       Bytes \cup {ZlibError}]} :
             /\ image_data' = decoded
             /\ pc' = IF decoded = None THEN "next" ELSE "compress"
        /\ UNCHANGED obj
  /\ UNCHANGED <<cfgVars, pageVars, obj_idx, orig, compressed_data, fileVars,
                 mainVars, splitVars>>

\* Lines 199-217: recompress, and replace the image if the result differs.
ExtractCompress ==
  /\ pc = "compress"
  /\ \E pil \in Bytes \cup {PILError} :
       LET quality == quality_map(compression_level)
           max_size == size_map(compression_level)
           compressed ==
             compress_image(image_data, quality, max_size[1], max_size[2],
                            PIL_AVAILABLE, pil)
       IN  /\ compressed_data' = compressed
           /\ obj' = IF compressed # image_data /\ compressed # None
                          /\ PIL_AVAILABLE
                       THEN ReplaceImage(obj, compressed)
                       ELSE obj
  /\ pc' = "next"
  /\ UNCHANGED <<cfgVars, pageVars, obj_idx, orig, image_data, fileVars,
                 mainVars, splitVars>>

\* The end of the loop body (or a continue): on to the next name.  The
\* image's locals are dead from here on, and are reset.
ExtractContinue ==
  /\ pc = "next"
  /\ obj_idx' = obj_idx + 1
  /\ orig' = NoObj
  /\ obj' = NoObj
  /\ image_data' = None
  /\ compressed_data' = None
  /\ pc' = "xobj"
  /\ UNCHANGED <<cfgVars, pageVars, fileVars, mainVars, splitVars>>

\* Line 226.
ExtractAddPage ==
  /\ pc = "add_page"
  /\ writerPages' = Append(writerPages, page_num)
  /\ page_num' = page_num + 1
  /\ pc' = "page"
  /\ UNCHANGED <<cfgVars, num_pages, imageVars, fileVars, mainVars, splitVars>>

\* Lines 255-269: after the page loop, write the output; then split it if a
\* chunk size was given, else return True.
CompressWrite ==
  /\ pc = "page"
  /\ page_num = num_pages
  /\ \/ /\ CompressFailed
        /\ \E e \in {outputExists, TRUE} : outputExists' = e
        /\ UNCHANGED <<outputPages, splitVars>>
     \/ /\ outputExists' = TRUE
        /\ outputPages' = Len(writerPages)
        /\ IF chunk_size # 0
             THEN /\ pc' = "split"
                  /\ UNCHANGED <<success, splitVars>>
             ELSE /\ pc' = "report"
                  /\ success' = TRUE
                  /\ UNCHANGED splitVars
        /\ UNCHANGED <<printed, exitCode>>
  /\ UNCHANGED <<cfgVars, pageVars, imageVars>>

\* ------------------------------------------------------ split_pdf_by_size
\* Page ranges are pairs <<first, last>> of page indices of the input file.
\* Lines 303-307: the pages of the probe, the current chunk plus the new page.
ProbeRange(pn, pic) == <<pn - pic, pn>>

\* RejectedChunkRange taking the rejected page into the closed chunk.
RejectedChunkRange_WithPage(pn, pic) == <<pn - pic, pn>>

\* Lines 324-325: the pages of a chunk closed before page pn.
RejectedChunkRange(pn, pic) == <<pn - pic, pn - 1>>

\* FinalChunkRange without the "+ 1" of line 347.
FinalChunkRange_NoPlusOne(pn, pic) == <<pn - pic, pn - 1>>

\* Lines 346-347: the pages of the final chunk, written at the last page pn.
FinalChunkRange(pn, pic) == <<pn - pic + 1, pn>>

\* ExceedsBudget with ">=" for ">".
ExceedsBudget_AtBudget(size, budget, pic) == size >= budget /\ pic > 0

\* Line 319: the probe is over the budget and the current chunk is not empty.
ExceedsBudget(size, budget, pic) == size > budget /\ pic > 0

\* RemovesOriginal with ">=" for ">".
RemovesOriginal_Always(cn) == cn >= 1

\* Line 363: the original is removed when more than one chunk was numbered.
RemovesOriginal(cn) == cn > 1

\* The sizes a serialization not made before may turn out to have: only its
\* order with the budget matters to the program.
SizeChoices(budget) == {budget - 1, budget, budget + 1}

\* The sizes writing range r to a file can give: the size recorded for r if r
\* was written before (the size is a function of the page range), else any.
SerializedSizes(r, budget) ==
  IF r \in DOMAIN sizeOf THEN {sizeOf[r]} ELSE SizeChoices(budget)

Record(r, size) == IF r \in DOMAIN sizeOf THEN sizeOf ELSE (r :> size) @@ sizeOf

ChunkFile(r, size, complete) ==
  [first |-> r[1], last |-> r[2], size |-> size, complete |-> complete]

\* Lines 286-294: open and parse the input; set up the loop.
SplitOpen ==
  /\ pc = "split"
  /\ size_bytes' = chunk_size * KB * KB
  /\ \/ /\ pc' = "split_except"
        /\ UNCHANGED <<total_pages, chunk_number, temp_filename,
                       pages_in_current_chunk, page_number>>
     \/ /\ outputExists
        /\ total_pages' = outputPages
        /\ chunk_number' = 1
        /\ temp_filename' = NoName
        /\ pages_in_current_chunk' = 0
        /\ page_number' = 0
        /\ pc' = "probe"
  /\ UNCHANGED <<cfgVars, pageVars, imageVars, fileVars, mainVars, test_size,
                 tempExists, tempRemoveFailed, chunkFiles, sizeOf, splitEnd>>

\* Lines 296-316: write the current chunk plus this page to the probe file
\* and measure it.  Reading the page can raise before the probe is named;
\* opening the probe can raise before the file exists, writing or measuring
\* it after.
SplitProbe ==
  /\ pc = "probe"
  /\ page_number < total_pages
  /\ \/ /\ pc' = "split_except"
        /\ UNCHANGED <<temp_filename, tempExists, test_size, sizeOf>>
     \/ /\ temp_filename' = TempName
        /\ pc' = "split_except"
        /\ \E e \in {tempExists, TRUE} : tempExists' = e
        /\ UNCHANGED <<test_size, sizeOf>>
     \/ /\ temp_filename' = TempName
        /\ tempExists' = TRUE
        /\ LET r == ProbeRange(page_number, pages_in_current_chunk) IN
             \E size \in SerializedSizes(r, size_bytes) :
               /\ test_size' = size
               /\ sizeOf' = Record(r, size)
        /\ pc' = "decide"
  /\ UNCHANGED <<cfgVars, pageVars, imageVars, fileVars, mainVars, size_bytes,
                 total_pages, chunk_number, pages_in_current_chunk, page_number,
                 tempRemoveFailed, chunkFiles, splitEnd>>

\* Writing range r as the chunk file numbered chunk_number, to go on at pc
\* `then`: opening the file can raise (no file), writing it can raise (a
\* partial file), and measuring it can raise (a complete file).
WriteChunk(r, then) ==
  \E size \in SerializedSizes(r, size_bytes) :
    \/ /\ pc' = "split_except"
       /\ UNCHANGED <<chunkFiles, sizeOf>>
    \/ /\ pc' = "split_except"
       /\ \E complete \in BOOLEAN :
            chunkFiles' = Append(chunkFiles, ChunkFile(r, size, complete))
       /\ sizeOf' = Record(r, size)
    \/ /\ pc' = then
       /\ chunkFiles' = Append(chunkFiles, ChunkFile(r, size, TRUE))
       /\ sizeOf' = Record(r, size)

\* Lines 318-339: close the current chunk before this page, or take the page.
SplitDecide ==
  /\ pc = "decide"
  /\ IF ExceedsBudget(test_size, size_bytes, pages_in_current_chunk)
       THEN /\ WriteChunk(RejectedChunkRange(page_number, pages_in_current_chunk),
                          "final")
            /\ IF pc' = "final"
                 THEN /\ chunk_number' = chunk_number + 1
                      /\ pages_in_current_chunk' = 1
                 ELSE UNCHANGED <<chunk_number, pages_in_current_chunk>>
       ELSE /\ pages_in_current_chunk' = pages_in_current_chunk + 1
            /\ pc' = "final"
            /\ UNCHANGED <<chunk_number, chunkFiles, sizeOf>>
  /\ UNCHANGED <<cfgVars, pageVars, imageVars, fileVars, mainVars, size_bytes,
                 total_pages, temp_filename, page_number, test_size, tempExists,
                 tempRemoveFailed, splitEnd>>

\* Lines 341-353: at the last page, write the final chunk.
SplitFinal ==
  /\ pc = "final"
  /\ IF page_number = total_pages - 1
       THEN WriteChunk(FinalChunkRange(page_number, pages_in_current_chunk),
                       "cleanup")
       ELSE /\ pc' = "cleanup"
            /\ UNCHANGED <<chunkFiles, sizeOf>>
  /\ UNCHANGED <<cfgVars, pageVars, imageVars, fileVars, mainVars, size_bytes,
                 total_pages, chunk_number, temp_filename,
                 pages_in_current_chunk, page_number, test_size, tempExists,
                 tempRemoveFailed, splitEnd>>

\* Lines 356-360 and 372-376: where the cleanup is skipped altogether.
RemoveTemp_Skipped ==
  UNCHANGED <<tempExists, tempRemoveFailed>>

\* Lines 356-360 and 372-376: os.remove(temp_filename) when the name is set
\* and the file exists.  The file goes, or os.remove raises, "except: pass"
\* swallows that and the file stays.
RemoveTemp ==
  IF temp_filename \notin {Unbound, NoName} /\ tempExists
    THEN \E raised \in BOOLEAN :
           /\ tempExists' = raised
           /\ tempRemoveFailed' = raised
    ELSE UNCHANGED <<tempExists, tempRemoveFailed>>

\* Lines 355-360: remove the probe file; on to the next page.
SplitCleanup ==
  /\ pc = "cleanup"
  /\ RemoveTemp
  /\ page_number' = page_number + 1
  /\ pc' = "probe"
  /\ UNCHANGED <<cfgVars, pageVars, imageVars, fileVars, mainVars, size_bytes,
                 total_pages, chunk_number, temp_filename,
                 pages_in_current_chunk, test_size, chunkFiles, sizeOf, splitEnd>>

\* Lines 362-367: after the loop, remove the original or report that nothing
\* was split.  os.remove can raise.
SplitFinish ==
  /\ pc = "probe"
  /\ page_number = total_pages
  /\ IF RemovesOriginal(chunk_number)
       THEN \/ /\ pc' = "split_except"
               /\ UNCHANGED <<outputExists, printed, splitEnd>>
            \/ /\ outputExists' = FALSE
               /\ printed' = printed \cup {"Original file removed."}
               /\ splitEnd' = "returned"
               /\ pc' = "split_end"
       ELSE /\ printed' = printed \cup {"no splitting needed."}
            /\ splitEnd' = "returned"
            /\ pc' = "split_end"
            /\ UNCHANGED outputExists
  /\ UNCHANGED <<cfgVars, pageVars, imageVars, outputPages, success, exitCode,
                 size_bytes, total_pages, chunk_number, temp_filename,
                 pages_in_current_chunk, page_number, test_size, tempExists,
                 tempRemoveFailed, chunkFiles, sizeOf>>

\* Lines 369-376: the except clause.  It reads temp_filename, which is not
\* bound when the exception came before line 293: that read raises
\* UnboundLocalError, which leaves split_pdf_by_size.
SplitExcept ==
  /\ pc = "split_except"
  /\ printed' = printed \cup {"Error splitting PDF"}
  /\ IF temp_filename = Unbound
       THEN /\ splitEnd' = "raised"
            /\ UNCHANGED <<tempExists, tempRemoveFailed>>
       ELSE /\ splitEnd' = "returned"
            /\ RemoveTemp
  /\ pc' = "split_end"
  /\ UNCHANGED <<cfgVars, pageVars, imageVars, fileVars, success, exitCode,
                 size_bytes, total_pages, chunk_number, temp_filename,
                 pages_in_current_chunk, page_number, test_size, chunkFiles,
                 sizeOf>>

\* Lines 267-273: back in compress_pdf, return True; an exception that left
\* split_pdf_by_size is caught here.
CompressAfterSplit ==
  /\ pc = "split_end"
  /\ IF splitEnd = "raised"
       THEN CompressFailed
       ELSE /\ pc' = "report"
            /\ success' = TRUE
            /\ UNCHANGED <<printed, exitCode>>
  /\ UNCHANGED <<cfgVars, pageVars, imageVars, fileVars, splitVars>>

\* Lines 450-477: main reports and the process ends.
MainReport ==
  /\ pc = "report"
  /\ IF success
       THEN /\ printed' = printed \cup
                 {IF chunk_size # 0 /\ ~outputExists
                    THEN "PDF processed and split successfully!"
                    ELSE "PDF processed successfully!"}
            /\ exitCode' = 0
       ELSE /\ printed' = printed \cup {"Failed to compress PDF"}
            /\ exitCode' = 1
  /\ pc' = "exit"
  /\ UNCHANGED <<cfgVars, pageVars, imageVars, fileVars, success, splitVars>>

SplitNext ==
  \/ SplitOpen
  \/ SplitProbe
  \/ SplitDecide
  \/ SplitFinal
  \/ SplitCleanup
  \/ SplitFinish
  \/ SplitExcept

Next ==
  \/ MainValidate
  \/ CompressOpen
  \/ ExtractPage
  \/ ExtractXObject
  \/ ExtractImage
  \/ ExtractCompress
  \/ ExtractContinue
  \/ ExtractAddPage
  \/ CompressWrite
  \/ SplitNext
  \/ CompressAfterSplit
  \/ MainReport

\* The whole program, from main().
Spec == Init /\ [][Next]_vars

\* extract_and_compress_images alone, on a document of one page.
ExtractInit ==
  /\ pc = "page"
  /\ PIL_AVAILABLE \in BOOLEAN
  /\ compression_level \in Levels
  /\ remove_images \in BOOLEAN
  /\ chunk_size = 0
  /\ num_pages = 1
  /\ page_num = 0
  /\ writerPages = <<>>
  /\ obj_idx = 0
  /\ orig = NoObj
  /\ obj = NoObj
  /\ image_data = None
  /\ compressed_data = None
  /\ outputExists = FALSE
  /\ outputPages = 0
  /\ success = FALSE
  /\ printed = {}
  /\ exitCode = -1
  /\ SplitIdle
  /\ sizeOf = <<>>

ExtractNext ==
  \/ ExtractPage
  \/ ExtractXObject
  \/ ExtractImage
  \/ ExtractCompress
  \/ ExtractContinue
  \/ ExtractAddPage

ExtractSpec == ExtractInit /\ [][ExtractNext]_vars

\* The page ranges of a file of n pages.
Ranges(n) == {r \in (0..(n - 1)) \X (0..(n - 1)) : r[1] <= r[2]}

\* The additive size model: a range's size is the sum of its pages' sizes,
\* here all equal to page_size.
AdditiveSizes(n, page_size) ==
  [r \in Ranges(n) |-> (r[2] - r[1] + 1) * page_size]

\* split_pdf_by_size alone, called on an existing file of up to MaxPages
\* pages under the additive size model, or of up to MaxMeasuredPages pages
\* with every size left open.
SplitInit ==
  /\ pc = "split"
  /\ PIL_AVAILABLE = TRUE
  /\ compression_level = "medium"
  /\ remove_images = FALSE
  /\ chunk_size \in 1..MaxSizeMB
  /\ ExtractIdle
  /\ outputExists = TRUE
  /\ success = FALSE
  /\ printed = {}
  /\ exitCode = -1
  /\ SplitIdle
  /\ \/ /\ outputPages \in 0..MaxMeasuredPages
        /\ sizeOf = <<>>
     \/ /\ outputPages \in 0..MaxPages
        /\ \E page_size \in PageSizes :
             sizeOf = AdditiveSizes(outputPages, page_size)

SplitSpec == SplitInit /\ [][SplitNext]_vars

\* ================================================================= claims
\* The reports that tell how a run went.
SplitFailed == "Error splitting PDF" \in printed
CompressFailure == "Error compressing PDF" \in printed

\* split_pdf_by_size has ended, and no exception was raised in it.
SplitCompleted == pc = "split_end" /\ splitEnd = "returned" /\ ~SplitFailed

\* The pages first..last of chunks 1..n, one range after the other.
RECURSIVE ChunkPages(_)
ChunkPages(n) ==
  IF n = 0 THEN <<>>
  ELSE ChunkPages(n - 1)
         \o [i \in 1..(chunkFiles[n].last - chunkFiles[n].first + 1) |->
               chunkFiles[n].first + i - 1]

\* C1: whatever per-image and per-page failures occur, the pages added to
\* the writer are the input's pages, in order and with none omitted: at the
\* top of the page loop the writer holds pages 0..page_num-1.
C1_AllPagesAppended ==
  pc = "page" => writerPages = [i \in 1..page_num |-> i - 1]

\* C2: when split_pdf_by_size completes without an exception, the chunk files
\* are complete, non-empty, contiguous page ranges, and their ranges in chunk
\* order give the pages 0..total_pages-1, each once.
C2_ChunksPartitionPages ==
  SplitCompleted =>
    /\ total_pages = outputPages
    /\ \A i \in 1..Len(chunkFiles) :
         /\ chunkFiles[i].complete
         /\ chunkFiles[i].first <= chunkFiles[i].last
         /\ i > 1 => chunkFiles[i].first = chunkFiles[i - 1].last + 1
    /\ ChunkPages(Len(chunkFiles)) = [i \in 1..total_pages |-> i - 1]

\* A completed split into three or more chunks, one of several pages.
C2_Witness ==
  /\ SplitCompleted
  /\ Len(chunkFiles) >= 3
  /\ \E i \in 1..Len(chunkFiles) : chunkFiles[i].last > chunkFiles[i].first

\* C3: with the serialized size a function of the page range, every chunk
\* file of two or more pages is within the budget; only a chunk of one page
\* may exceed it.
C3_MultiPageChunksFit ==
  \A i \in 1..Len(chunkFiles) :
    chunkFiles[i].last > chunkFiles[i].first => chunkFiles[i].size <= size_bytes

\* A completed split with a chunk of several pages exactly at the budget and
\* a chunk of one page over it.
C3_Witness ==
  /\ SplitCompleted
  /\ \E i, j \in 1..Len(chunkFiles) :
       /\ chunkFiles[i].last > chunkFiles[i].first
       /\ chunkFiles[i].size = size_bytes
       /\ chunkFiles[j].last = chunkFiles[j].first
       /\ chunkFiles[j].size > size_bytes

\* C4: when the whole document is within the budget, so that one chunk
\* results, the original stays and no chunk file is created.
C4_NoChunkFileWhenFits ==
  ( /\ SplitCompleted
    /\ chunk_number = 1
    /\ total_pages > 0 => /\ <<0, total_pages - 1>> \in DOMAIN sizeOf
                          /\ sizeOf[<<0, total_pages - 1>>] <= size_bytes )
  => outputExists /\ chunkFiles = <<>>

\* C5: the original is deleted only after the page loop has run to its end
\* with more than one chunk, and then every page is in a completely written
\* chunk file; a split that ends without an exception, with more than one
\* chunk, has deleted it; and after an exception (one raised by the deletion
\* itself included) the original still exists.
C5_OriginalDeletedOnlyWhenSuperseded ==
  /\ ~outputExists =>
       /\ pc = "split_end"
       /\ page_number = total_pages
       /\ chunk_number > 1
       /\ Len(chunkFiles) = chunk_number
       /\ \A i \in 1..Len(chunkFiles) : chunkFiles[i].complete
       /\ ChunkPages(Len(chunkFiles)) = [i \in 1..total_pages |-> i - 1]
  /\ SplitCompleted /\ chunk_number > 1 => ~outputExists
  /\ SplitFailed => outputExists

\* A split that has deleted the original.
C5_Witness ==
  /\ pc = "split_end"
  /\ ~outputExists
  /\ Len(chunkFiles) >= 2

\* C6: no exception leaves split_pdf_by_size, wherever it is raised.
C6_NeverPropagates == splitEnd # "raised"

\* C7: a run with no fatal failure exits with 0; a run with a fatal document
\* failure or a fatal split failure exits non-zero with the failure report
\* and without a success report.
C7_FailuresSurface ==
  pc = "exit" /\ printed \cap {"Error: input", "Operation cancelled."} = {} =>
    IF CompressFailure \/ SplitFailed
      THEN /\ exitCode # 0
           /\ "Failed to compress PDF" \in printed
           /\ printed \cap {"PDF processed successfully!",
                            "PDF processed and split successfully!"} = {}
      ELSE exitCode = 0

\* The image chain has an unsupported filter.
HasUnsupported(filters) ==
  \E i \in 1..Len(filters) : filters[i] \in UnsupportedFilters

\* The image chain has an unsupported filter that no /DCTDecode precedes.
ReachesUnsupported(filters) ==
  \E i \in 1..Len(filters) :
    /\ filters[i] \in UnsupportedFilters
    /\ \A j \in 1..(i - 1) : filters[j] # DCT

\* C8 as stated: an image with an unsupported filter anywhere in its chain
\* is as it was, whatever the remove-images flag.
C8_UnsupportedAlwaysUntouched ==
  orig # NoObj /\ HasUnsupported(orig.Filter) => obj = orig

\* C8 amended: with remove-images off, an image whose chain has an
\* unsupported filter with no /DCTDecode before it is as it was.
C8_ReachedUnsupportedUntouched ==
  orig # NoObj /\ ~remove_images /\ ReachesUnsupported(orig.Filter) => obj = orig

\* An image with /FlateDecode before /JPXDecode has been through the handler,
\* with the codec available and remove-images off.
C8_Witness ==
  /\ pc = "next"
  /\ orig # NoObj
  /\ orig.Filter = <<Flate, JPX>>
  /\ ~remove_images
  /\ PIL_AVAILABLE

\* C9: chunk boundaries are greedy.  Within a chunk no probe exceeded the
\* budget, and a chunk closed before the last page was closed by a probe
\* that did; and ten equal pages of size s under a budget of 4s, sizes
\* additive, end as chunks of pages 0-3, 4-7 and 8-9, the original deleted.
C9_GreedyBoundaries ==
  /\ \A i \in 1..Len(chunkFiles) :
       LET c == chunkFiles[i] IN
         /\ \A p \in (c.first + 1)..c.last :
              /\ <<c.first, p>> \in DOMAIN sizeOf
              /\ sizeOf[<<c.first, p>>] <= size_bytes
         /\ c.last < total_pages - 1 =>
              /\ <<c.first, c.last + 1>> \in DOMAIN sizeOf
              /\ sizeOf[<<c.first, c.last + 1>>] > size_bytes
  /\ \A s \in PageSizes :
       ( /\ SplitCompleted
         /\ total_pages = 10
         /\ sizeOf = AdditiveSizes(10, s)
         /\ size_bytes = 4 * s )
       => /\ chunkFiles = <<ChunkFile(<<0, 3>>, 4 * s, TRUE),
                            ChunkFile(<<4, 7>>, 4 * s, TRUE),
                            ChunkFile(<<8, 9>>, 2 * s, TRUE)>>
          /\ ~outputExists

\* The ten-page scenario has completed.
C9_Witness ==
  /\ SplitCompleted
  /\ total_pages = 10
  /\ \E s \in PageSizes : sizeOf = AdditiveSizes(10, s) /\ size_bytes = 4 * s
  /\ Len(chunkFiles) = 3

\* C10: with remove-images off an image is either as it was, or replaced:
\* its payload is the recompressor's result, which differs from the decoded
\* bytes and is strictly shorter, /Length is that payload's length, /Filter
\* is /DCTDecode, /ColorSpace is /DeviceRGB, and /SMask, /Mask and
\* /DecodeParms are gone.  A recompressor result equal to the decoded bytes
\* (its failure, or a result not smaller) leaves the image as it was.
C10_UntouchedOrReplaced ==
  orig # NoObj /\ ~remove_images =>
    \/ obj = orig
    \/ /\ image_data # None
       /\ compressed_data # image_data
       /\ obj.data = compressed_data
       /\ BLen(obj.data) < BLen(image_data)
       /\ obj.Length = BLen(obj.data)
       /\ obj.Filter = <<DCT>>
       /\ obj.ColorSpace = "/DeviceRGB"
       /\ obj.aux \cap AuxKeys = {}

\* A /FlateDecode image with masks and decode parameters has been replaced.
C10_Witness ==
  /\ pc = "next"
  /\ orig # NoObj
  /\ orig.Filter = <<Flate>>
  /\ orig.aux = AuxKeys
  /\ obj # orig
  /\ obj # Deleted

\* split_pdf_by_size is at the start of a page iteration (or at the loop's
\* end test), or has ended.
BetweenProbes == pc \in {"probe", "split_end"}

====
